---- MODULE Spec2Model ----
(***************************************************************************)
(* MoniClear: the session state holder (AuthProvider), the record store    *)
(* adapter (FirestoreService) and the record session (AuthenticatedApp),   *)
(* as a state machine whose steps are the event-loop tasks of the program: *)
(* a user-interface handler, an effect, or the continuation of an await.   *)
(***************************************************************************)
EXTENDS Integers, Sequences, FiniteSets, TLC

(* ----------------------------- bounds ---------------------------------- *)
\* number of successive direct calls of migrateLocalDataToFirestore
MaxCalls == 2
\* an auth callback is given a user only while fewer than MaxInFlight earlier
\* callbacks await their migration
MaxInFlight == 1
\* number of session operations awaiting the identity provider at one time
MaxPending == 1
\* number of debounced saves awaiting the remote store at one time
MaxSaves == 1
\* the longest run of record mutations that is counted
MaxBurst == 2

(* ------------------------- values and records -------------------------- *)
NoItem == <<"null">>            \* localStorage.getItem(...) === null
NoDoc == [exists |-> FALSE]     \* docSnap.exists() === false
Null == [null |-> TRUE]         \* the null of AppData | null
NoUser == "NoUser"              \* the null of User | null

Users == {"u1"}

\* localStorage keys
DataKey == "wealthway_data_v2"
GuestKey == "moniclear_guest_user"

\* The all-empty default record.
DefaultData ==
  [weeklyEstimate |-> 0, incomeHistory |-> <<>>, bills |-> <<>>,
   wishlist |-> <<>>, expenses |-> <<>>]

\* Entries of the four sequences (types.ts).
Income1 == [id |-> "i1", amount |-> 100, date |-> "d1"]
Bill1 == [id |-> "b1", name |-> "Rent", amount |-> 50, dueDate |-> "d1",
          isPaid |-> FALSE]
Wish1 == [id |-> "w1", name |-> "Bike", price |-> 120, priority |-> "High"]
Expense1 == [id |-> "e1", description |-> "Lunch", amount |-> 7,
             category |-> "Food", date |-> "d1"]

\* Records the guest can hold in the local store.
LocalRecords ==
  { [DefaultData EXCEPT !.weeklyEstimate = 30, !.bills = <<Bill1>>],
    [DefaultData EXCEPT !.weeklyEstimate = 30] }

\* Records the remote document can hold before the session starts.
RemoteRecords ==
  { DefaultData,
    [DefaultData EXCEPT !.weeklyEstimate = 70],
    [DefaultData EXCEPT !.bills = <<Bill1>>],
    [DefaultData EXCEPT !.expenses = <<Expense1>>],
    [DefaultData EXCEPT !.wishlist = <<Wish1>>],
    [DefaultData EXCEPT !.incomeHistory = <<Income1>>] }

\* JSON text of a record, and a text that is no JSON at all.
JSONstringify(r) == <<"json", r>>
BadText == <<"{bad">>
JSONparses(t) == t[1] = "json"
JSONparse(t) == t[2]

\* setDoc(ref, data): the document becomes data.
SetDoc(old, data) == data
\* setDoc(ref, data, { merge: true }): the fields of data replace the
\* document's, its other fields stay.
SetDocMerge(old, data) ==
  IF old = NoDoc THEN data
  ELSE [f \in (DOMAIN old) \cup (DOMAIN data) |->
          IF f \in DOMAIN data THEN data[f] ELSE old[f]]

\* Mutants of HasExistingData: the incomeHistory test forgotten; a positive
\* weeklyEstimate taken for existing data.
HasExistingData_NoIncome(existingData) ==
  /\ existingData # Null
  /\ \/ Len(existingData.bills) > 0
     \/ Len(existingData.expenses) > 0
     \/ Len(existingData.wishlist) > 0

HasExistingData_Estimate(existingData) ==
  /\ existingData # Null
  /\ \/ Len(existingData.bills) > 0
     \/ Len(existingData.expenses) > 0
     \/ Len(existingData.wishlist) > 0
     \/ Len(existingData.incomeHistory) > 0
     \/ existingData.weeklyEstimate > 0

\* The condition of migrateLocalDataToFirestore on the record it read.
HasExistingData(existingData) ==
  /\ existingData # Null
  /\ \/ Len(existingData.bills) > 0
     \/ Len(existingData.expenses) > 0
     \/ Len(existingData.wishlist) > 0
     \/ Len(existingData.incomeHistory) > 0

(* ----------------------- the record operations ------------------------- *)
\* App.tsx line 666: setData(prev => ({ ...prev, weeklyEstimate: val }))
SetWeeklyEstimate(prev, val) == [prev EXCEPT !.weeklyEstimate = val]

\* App.tsx line 761: the isPaid of the bills with the id is negated.
ToggleBillPaid(prev, id) ==
  [prev EXCEPT !.bills =
     [k \in DOMAIN prev.bills |->
        IF prev.bills[k].id = id
        THEN [prev.bills[k] EXCEPT !.isPaid = ~prev.bills[k].isPaid]
        ELSE prev.bills[k]]]

\* generateId (line 163): a string made of the clock and a random number.
GeneratedIds == {"g1", "g2"}
\* new Date().toISOString().split('T')[0], on the day of the session
Dates == {"d2"}

\* Mutant of MarkWishlistAsPurchased: the first item leaves the wishlist.
MarkWishlistAsPurchased_First(prev, item, generated, today) ==
  [prev EXCEPT
     !.wishlist = Tail(prev.wishlist),
     !.expenses = Append(prev.expenses,
                         [id |-> <<"purchased-", generated>>,
                          description |-> <<"Wishlist: ", item.name>>,
                          amount |-> item.price,
                          category |-> "Shopping",
                          date |-> today])]

\* markWishlistAsPurchased, lines 174-186, with the values of generateId()
\* and of the clock: the items with the id of item are filtered out and one
\* expense is appended.
MarkWishlistAsPurchased(prev, item, generated, today) ==
  [prev EXCEPT
     !.wishlist = SelectSeq(prev.wishlist, LAMBDA i : i.id # item.id),
     !.expenses = Append(prev.expenses,
                         [id |-> <<"purchased-", generated>>,
                          description |-> <<"Wishlist: ", item.name>>,
                          amount |-> item.price,
                          category |-> "Shopping",
                          date |-> today])]

(* ------------------- the numbers of the aggregates ---------------------- *)
\* The amounts are JavaScript numbers, IEEE 754 doubles with a significand of
\* 53 bits. Double(hi, lo) is the number hi * 2^53 + lo, for hi and lo of
\* small magnitude: a number below 2^53 when hi = 0.
Double(hi, lo) == [hi |-> hi, lo |-> lo]
Negated(x) == Double(-x.hi, -x.lo)
\* The sum and the difference as real numbers.
Plus(x, y) == Double(x.hi + y.hi, x.lo + y.lo)
Minus(x, y) == Double(x.hi - y.hi, x.lo - y.lo)

\* The distance between neighbouring doubles from hi * 2^53 up, hi >= 1:
\* 2 from 2^53, 4 from 2^54, 8 from 2^55.
RECURSIVE Ulp(_)
Ulp(hi) == IF hi < 1 THEN 1 ELSE 2 * Ulp(hi \div 2)

\* The distance between the doubles around hi * 2^53 + lo, hi >= 1: below a
\* power of two it is half the distance above it.
Spacing(x) ==
  IF x.lo < 0 /\ Ulp(x.hi) = 2 * x.hi THEN Ulp(x.hi) \div 2 ELSE Ulp(x.hi)

\* n rounded to the nearest multiple of q, a tie to the even multiple: the
\* multiples of 2^53 have even significands at these distances.
RoundTo(n, q) ==
  LET r == n % q
      down == n - r
      up == down + q
  IN IF r = 0 THEN n
     ELSE IF 2 * r < q THEN down
     ELSE IF 2 * r > q THEN up
     ELSE IF (down \div q) % 2 = 0 THEN down ELSE up

\* Round to nearest, ties to even: the double an operation returns for the
\* real number x. Integers below 2^53 are doubles.
RoundPositive(x) == Double(x.hi, RoundTo(x.lo, Spacing(x)))
Round(x) ==
  IF x.hi = 0 THEN x
  ELSE IF x.hi < 0 THEN Negated(RoundPositive(Negated(x)))
  ELSE RoundPositive(x)

\* a + b and a - b of JavaScript
Add(x, y) == Round(Plus(x, y))
Sub(x, y) == Round(Minus(x, y))

\* entries.reduce((acc, curr) => acc + curr.amount, acc)
RECURSIVE Reduce(_, _)
Reduce(entries, acc) ==
  IF entries = <<>> THEN acc
  ELSE Reduce(Tail(entries), Add(acc, Head(entries).amount))

\* b.isDeposit of a bill, a field that may be absent
IsDeposit(b) == "isDeposit" \in DOMAIN b /\ b.isDeposit

\* The aggregates of AuthenticatedApp, lines 143-158.
TotalHistoryIncome(d) == Reduce(d.incomeHistory, Double(0, 0))
TotalExpenses(d) == Reduce(d.expenses, Double(0, 0))
TotalUnpaidBills(d) ==
  Reduce(SelectSeq(d.bills, LAMBDA b : ~b.isPaid), Double(0, 0))
TotalPaidBills(d) ==
  Reduce(SelectSeq(d.bills, LAMBDA b : b.isPaid), Double(0, 0))
TotalHeldDeposits(d) ==
  Reduce(SelectSeq(d.bills, LAMBDA b : b.isPaid /\ IsDeposit(b)), Double(0, 0))
ConfirmedBalance(d) ==
  Sub(Sub(TotalHistoryIncome(d), TotalExpenses(d)), TotalPaidBills(d))
ProjectedBalance(d) == Add(ConfirmedBalance(d), d.weeklyEstimate)
TotalNetWorth(d) == Add(ConfirmedBalance(d), TotalHeldDeposits(d))

(* ---------------- the handlers of the four tabs, as typed ---------------- *)
\* The text of an input field: whether it holds digits, whether a minus sign
\* precedes them, and the number the digits spell.
Text(numeric, neg, digits) == [numeric |-> numeric, neg |-> neg, digits |-> digits]
NaN == [nan |-> TRUE]
\* parseFloat(text)
ParseFloat(t) ==
  IF ~t.numeric THEN NaN ELSE Double(0, IF t.neg THEN -t.digits ELSE t.digits)
\* text.replace(/[^0-9.]/g, ''), line 832
StripNonDigits(t) == [t EXCEPT !.neg = FALSE]
\* x || 0: NaN and 0 are falsy
OrZero(x) == IF x = NaN \/ x = Double(0, 0) THEN Double(0, 0) ELSE x
\* x > 0 and x < 0, false for NaN
Positive(x) == x # NaN /\ (x.hi > 0 \/ (x.hi = 0 /\ x.lo > 0))
Negative(x) == x # NaN /\ (x.hi < 0 \/ (x.hi = 0 /\ x.lo < 0))

\* Lines 673-677: the income is recorded and the estimate is set to 0.
MarkIncomePaid(prev, amt, generated, today) ==
  [prev EXCEPT
     !.incomeHistory = Append(@, [id |-> <<generated>>, amount |-> amt, date |-> today]),
     !.weeklyEstimate = Double(0, 0)]
\* Line 702.
RemoveIncome(prev, id) ==
  [prev EXCEPT !.incomeHistory = SelectSeq(@, LAMBDA item : item.id # id)]

\* Mutant of AddBill: the bill is recorded as a deposit.
AddBill_Deposit(prev, nameVal, amtVal, dateVal, generated) ==
  [prev EXCEPT !.bills = Append(@, [id |-> <<generated>>, name |-> nameVal,
                                    amount |-> amtVal, dueDate |-> dateVal,
                                    isPaid |-> FALSE, isDeposit |-> TRUE])]
\* Line 740.
AddBill(prev, nameVal, amtVal, dateVal, generated) ==
  [prev EXCEPT !.bills = Append(@, [id |-> <<generated>>, name |-> nameVal,
                                    amount |-> amtVal, dueDate |-> dateVal,
                                    isPaid |-> FALSE])]
\* Line 762.
RemoveBill(prev, id) ==
  [prev EXCEPT !.bills = SelectSeq(@, LAMBDA it : it.id # id)]

\* Line 787.
AddExpense(prev, descVal, amtVal, catVal, generated, today) ==
  [prev EXCEPT !.expenses = Append(@, [id |-> <<generated>>, description |-> descVal,
                                       amount |-> amtVal, category |-> catVal,
                                       date |-> today])]
\* Line 811.
RemoveExpense(prev, id) ==
  [prev EXCEPT !.expenses = SelectSeq(@, LAMBDA it : it.id # id)]

\* Lines 836-846.
AddWishlist(prev, nameVal, cleanPrice, generated) ==
  [prev EXCEPT !.wishlist = Append(@, [id |-> <<generated>>, name |-> nameVal,
                                       price |-> cleanPrice, priority |-> "Medium",
                                       isPinned |-> FALSE])]
\* togglePin, lines 165-172: isPinned, a field that may be absent, is negated.
TogglePin(prev, id) ==
  [prev EXCEPT !.wishlist =
     [k \in DOMAIN prev.wishlist |->
        LET item == prev.wishlist[k]
            pinned == "isPinned" \in DOMAIN item /\ item.isPinned
        IN IF item.id = id
           THEN [f \in (DOMAIN item) \cup {"isPinned"} |->
                   IF f = "isPinned" THEN ~pinned ELSE item[f]]
           ELSE item]]
\* Line 872.
RemoveWishlist(prev, id) ==
  [prev EXCEPT !.wishlist = SelectSeq(@, LAMBDA it : it.id # id)]

\* The amounts the user types for the weekly estimate.
Estimates == {0, 70}

\* The records a click in AuthenticatedApp makes of the record prev.
Mutations(prev) ==
  {SetWeeklyEstimate(prev, val) : val \in Estimates}
    \cup {ToggleBillPaid(prev, prev.bills[k].id) : k \in DOMAIN prev.bills}

\* saveUserData: true from the try block, false from the catch block.
SaveUserDataReturn(writeSucceeded) == IF writeSucceeded THEN TRUE ELSE FALSE

VARIABLES
  localStorage,   \* the browser's durable key-value store
  remote,         \* users/{uid}/financialData/main, per uid
  writes,         \* remote writes issued and not yet completed, in order
  calls,          \* the invocations of migrateLocalDataToFirestore
  subs,           \* the active onSnapshot subscriptions
  authUser,       \* the identity provider's current user (auth.currentUser)
  authSubs,       \* the onAuthStateChanged listeners registered by AuthProvider
  user,           \* AuthProvider state: user
  loading,        \* AuthProvider state: loading
  isGuest,        \* AuthProvider state: isGuest
  effect,         \* AuthProvider's effect: the isGuest it last ran with
  ops,            \* session operations awaiting the identity provider
  app,            \* the AuthenticatedApp instance, when App renders one
  timer,          \* the debounce timer of AuthenticatedApp's save effect
  login,          \* the LoginScreen instance, when App renders one
  hist            \* history: what the claims speak about

serviceVars == <<localStorage, remote, writes, calls, subs>>
authVars == <<authUser, authSubs, user, loading, isGuest, effect, ops>>
appVars == <<app, timer, login>>
vars == <<serviceVars, authVars, appVars, hist>>

\* AuthenticatedApp is not rendered; its initial state is lines 49-59.
NoListenerId == "null"
\* saveDue: data was set and the render that runs the save effect is to come.
NoApp ==
  [mounted |-> FALSE, data |-> DefaultData, isLoadingData |-> TRUE,
   firestoreListenerId |-> NoListenerId, depUser |-> NoUser,
   depIsGuest |-> FALSE, cleanupId |-> NoListenerId, saveDue |-> FALSE,
   exiting |-> {}]
NoTimer == [set |-> FALSE, uid |-> NoUser, data |-> DefaultData]
\* LoginScreen is not rendered; a new instance has error = '' (line 22).
NoLogin == [mounted |-> FALSE, error |-> ""]
\* History: the last of signInAsGuest and a successful sign-in; the local
\* store entry and the remote documents at the start of the behaviour, or of
\* the last direct call of the migration; whether a remote operation failed;
\* the logout completed since the last entry into a session ("guest", "auth"),
\* if any; whether signInAsGuest was called and no session operation was
\* called or has succeeded since;
\* whether the page was reloaded since the last session operation; whether
\* the last credential operation to end has thrown; the number of mutations
\* of a user's record since the save timer last fired or the record was last
\* set otherwise; the record after the last mutation by a user, until a save
\* carrying it is called; the record after the last mutation by a guest.
StartHist(ls, docs) ==
  [lastEntry |-> "none", local |-> ls[DataKey], remote |-> docs, failed |-> FALSE,
   logout |-> "none", guestLast |-> FALSE, restarted |-> FALSE,
   signInFailed |-> FALSE, burst |-> 0, unsaved |-> Null, guestRecord |-> Null,
   purchased |-> {}]

(* ----------------------- the remote document store ---------------------- *)
Write(uid, data, merge, owner) ==
  [uid |-> uid, data |-> data, merge |-> merge, owner |-> owner]

\* The document doc after the write w is applied to it.
Apply(doc, w) == IF w.merge THEN SetDocMerge(doc, w.data) ELSE SetDoc(doc, w.data)

\* The document uid as this client sees it: the document of the store with
\* the writes ws the client has issued and not yet seen acknowledged.
RECURSIVE View(_, _, _)
View(doc, ws, uid) ==
  IF ws = <<>> THEN doc
  ELSE View(IF Head(ws).uid = uid THEN Apply(doc, Head(ws)) ELSE doc, Tail(ws), uid)

\* onSnapshot: a subscription whose component is mounted has a snapshot to
\* deliver (dirty) when the document as the client sees it changes, from
\* before to after. The callback of a subscription whose component is
\* unmounted sets the state of no component: its deliveries are left out.
Notify(listeners, uid, before, after) ==
  { IF l.uid = uid /\ l.live /\ before # after
    THEN [l EXCEPT !.dirty = TRUE] ELSE l : l \in listeners }

\* setDoc is called: the write w joins the queue, and the subscriptions see it.
Issue(w) ==
  /\ writes' = Append(writes, w)
  /\ subs' = Notify(subs, w.uid, View(remote[w.uid], writes, w.uid),
                    View(remote[w.uid], Append(writes, w), w.uid))

\* The head of the write queue completes, then the write next is issued (or
\* none, for next = <<>>): an acknowledged write is in the store, a rejected
\* one is taken back from what the client sees.
CompleteHead(ok, next) ==
  LET w == Head(writes)
      doc == IF ok THEN Apply(remote[w.uid], w) ELSE remote[w.uid]
      queue == Tail(writes) \o next
  IN /\ remote' = [remote EXCEPT ![w.uid] = doc]
     /\ writes' = queue
     /\ subs' = Notify(subs, w.uid, View(remote[w.uid], writes, w.uid),
                       View(doc, queue, w.uid))

(* ------------------ FirestoreService.migrateLocalDataToFirestore -------- *)
\* A new invocation record: result is the value returned once pc = "done",
\* saveRet what saveUserData returned once saved; saved and the *Failed flags
\* are history.
NewCall(uid, caller) ==
  [uid |-> uid, caller |-> caller, pc |-> "start", parsed |-> Null,
   existing |-> Null, result |-> FALSE, saveRet |-> FALSE,
   readFailed |-> FALSE, writeFailed |-> FALSE, saved |-> FALSE]

\* The slot of an invocation that has returned to a callback that has ended.
FreeSlot ==
  [uid |-> NoUser, caller |-> "none", pc |-> "free", parsed |-> Null,
   existing |-> Null, result |-> FALSE, saveRet |-> FALSE,
   readFailed |-> FALSE, writeFailed |-> FALSE, saved |-> FALSE]

RECURSIVE Trim(_)
Trim(cs) ==
  IF cs # <<>> /\ cs[Len(cs)] = FreeSlot THEN Trim(SubSeq(cs, 1, Len(cs) - 1)) ELSE cs

Place(cs, c) ==
  IF \E i \in DOMAIN cs : cs[i] = FreeSlot
  THEN [cs EXCEPT ![CHOOSE i \in DOMAIN cs :
                      cs[i] = FreeSlot /\ \A k \in 1..(i - 1) : cs[k] # FreeSlot] = c]
  ELSE Append(cs, c)

RECURSIVE PlaceN(_, _, _)
PlaceN(cs, c, n) == IF n = 0 THEN cs ELSE PlaceN(Place(cs, c), c, n - 1)

InFlight == Cardinality({i \in DOMAIN calls : calls[i] # FreeSlot})

Return(c, value) == [c EXCEPT !.pc = "done", !.result = value]

\* Lines 117-124: up to the first await. No local data: true; a text that
\* JSON.parse rejects: the catch block, false.
MigrateEnter(c) ==
  IF localStorage[DataKey] = NoItem THEN Return(c, TRUE)
  ELSE IF ~JSONparses(localStorage[DataKey]) THEN Return(c, FALSE)
  ELSE [c EXCEPT !.pc = "getDoc", !.parsed = JSONparse(localStorage[DataKey])]

\* Lines 125-136 once getUserData has returned existingData: either return
\* true, or call saveUserData (the write w is issued).
MigrateDecide(c, existingData) ==
  IF HasExistingData(existingData)
  THEN [next |-> Return([c EXCEPT !.existing = existingData], TRUE),
        issue |-> FALSE]
  ELSE [next |-> [c EXCEPT !.existing = existingData, !.pc = "saveWrite"],
        issue |-> TRUE]

\* Line 139.
RemoveLocalData(ls) == [ls EXCEPT ![DataKey] = NoItem]

\* Lines 136-141 once saveUserData has returned ret.
MigrateAfterSave(c, ret) ==
  Return([c EXCEPT !.saveRet = ret, !.saved = TRUE], TRUE)

\* getUserData, lines 47-55: getDoc completes (ok) with the document as the
\* client sees it, or throws (~ok).
GetDocCompletes(i, ok) ==
  /\ i \in DOMAIN calls
  /\ calls[i].pc = "getDoc"
  /\ LET c == calls[i]
         doc == View(remote[c.uid], writes, c.uid)
     IN IF ok /\ doc = NoDoc
        THEN \* line 54: initializeUserData, setDoc(..., { merge: true })
             /\ calls' = [calls EXCEPT ![i].pc = "initWrite"]
             /\ Issue(Write(c.uid, DefaultData, TRUE, <<"init", i>>))
        ELSE LET existingData == IF ok THEN doc ELSE Null
                 c1 == [c EXCEPT !.readFailed = ~ok]
                 d == MigrateDecide(c1, existingData)
             IN /\ calls' = [calls EXCEPT ![i] = d.next]
                /\ IF d.issue
                   THEN Issue(Write(c.uid, c.parsed, FALSE, <<"save", i>>))
                   ELSE UNCHANGED <<writes, subs>>
  /\ hist' = [hist EXCEPT !.failed = @ \/ ~ok]
  /\ UNCHANGED <<localStorage, remote, authVars, appVars>>

\* initializeUserData, lines 38-41, inside getUserData's try block: the
\* default record is returned, or the catch block returns null.
InitWriteCompletes(i, ok) ==
  /\ writes # <<>>
  /\ Head(writes).owner = <<"init", i>>
  /\ i \in DOMAIN calls
  /\ calls[i].pc = "initWrite"
  /\ LET c == calls[i]
         existingData == IF ok THEN DefaultData ELSE Null
         c1 == [c EXCEPT !.readFailed = ~ok]
         d == MigrateDecide(c1, existingData)
     IN /\ calls' = [calls EXCEPT ![i] = d.next]
        /\ CompleteHead(ok, IF d.issue
                            THEN <<Write(c.uid, c.parsed, FALSE, <<"save", i>>)>>
                            ELSE <<>>)
  /\ hist' = [hist EXCEPT !.failed = @ \/ ~ok]
  /\ UNCHANGED <<localStorage, authVars, appVars>>

\* saveUserData called at line 136 completes; lines 139-141 follow.
SaveWriteCompletes(i, ok) ==
  /\ writes # <<>>
  /\ Head(writes).owner = <<"save", i>>
  /\ i \in DOMAIN calls
  /\ calls[i].pc = "saveWrite"
  /\ CompleteHead(ok, <<>>)
  /\ calls' = [calls EXCEPT ![i] =
       MigrateAfterSave([calls[i] EXCEPT !.writeFailed = ~ok], SaveUserDataReturn(ok))]
  /\ localStorage' = RemoveLocalData(localStorage)
  /\ hist' = [hist EXCEPT !.failed = @ \/ ~ok]
  /\ UNCHANGED <<authVars, appVars>>

(* ------------------------------ AuthProvider ---------------------------- *)
BoolStr(b) == IF b THEN "true" ELSE "false"

\* App, lines 932-953: which screen is rendered.
LoadingShown == loading
LoginShown == ~loading /\ user = NoUser /\ ~isGuest
AppShown == ~loading /\ (user # NoUser \/ isGuest)

\* Line 64: the callback migrates when it is given a user and the isGuest it
\* closed over is false.
ShouldMigrate(u, closureIsGuest) == u # NoUser /\ ~closureIsGuest

\* The onAuthStateChanged callback, lines 60-73, run for the listeners L with
\* the user u, up to the await of line 66: setUser(u); then either the
\* migration is started, or setLoading(false) is reached at once.
Migrating(u, L) == {j \in L : ShouldMigrate(u, authSubs[j].isGuest)}
RunCallbacks(u, L) ==
  IF L = {}
  THEN UNCHANGED <<user, loading, calls>>
  ELSE LET mig == Migrating(u, L)
       IN /\ user' = u
          /\ loading' = IF mig # L THEN FALSE ELSE loading
          /\ calls' = PlaceN(calls, MigrateEnter(NewCall(u, "auth")), Cardinality(mig))

\* Line 72, after the await of line 66: setLoading(false).
CallbackResumes(i) ==
  /\ i \in DOMAIN calls
  /\ calls[i].caller = "auth"
  /\ calls[i].pc = "done"
  /\ calls' = Trim([calls EXCEPT ![i] = FreeSlot])
  /\ loading' = FALSE
  /\ UNCHANGED <<localStorage, remote, writes, subs, authUser, authSubs, user,
                 isGuest, effect, ops, appVars, hist>>

AuthEffectCleanup_Leak(listeners) == listeners

\* The cleanup of the effect, line 75: the listener it registered is removed.
AuthEffectCleanup(listeners) == <<>>

IsGuestUser_Never(ls) == FALSE

\* Lines 53-54: localStorage.getItem('moniclear_guest_user') === 'true'
IsGuestUser(ls) == ls[GuestKey] = <<"true">>

\* The effect of lines 51-76, run after the first render and after every
\* render in which isGuest changed.
AuthEffect ==
  /\ effect # BoolStr(isGuest)
  /\ effect' = BoolStr(isGuest)
  /\ IF IsGuestUser(localStorage)
     THEN /\ isGuest' = TRUE
          /\ loading' = FALSE
          /\ authSubs' = AuthEffectCleanup(authSubs)
     ELSE /\ authSubs' = Append(AuthEffectCleanup(authSubs),
                                [isGuest |-> isGuest, initial |-> TRUE])
          /\ UNCHANGED <<isGuest, loading>>
  /\ UNCHANGED <<serviceVars, authUser, user, ops, appVars, hist>>

\* onAuthStateChanged calls a new listener once with the current user.
InitialCallback(j) ==
  /\ j \in DOMAIN authSubs
  /\ authSubs[j].initial
  /\ authSubs' = [authSubs EXCEPT ![j].initial = FALSE]
  /\ RunCallbacks(authUser, {j})
  /\ UNCHANGED <<localStorage, remote, writes, subs, authUser, isGuest, effect,
                 ops, appVars, hist>>

\* The identity provider's user changes to u: the registered listeners are
\* called when the uid differs from the one last reported.
AuthStateChanges(u) ==
  /\ authUser' = u
  /\ authSubs' = [j \in DOMAIN authSubs |-> [authSubs[j] EXCEPT !.initial = FALSE]]
  /\ RunCallbacks(u, IF u # authUser THEN DOMAIN authSubs ELSE {})

\* What a session operation may change: the state of AuthProvider, the durable
\* guest flag and the identity provider's session.
SessionState ==
  [user |-> user, isGuest |-> isGuest, flag |-> localStorage[GuestKey],
   session |-> authUser]

\* An operation awaiting the identity provider. screen: the LoginScreen
\* instance whose handler called it is still mounted; before is history, the
\* session state when the operation was called.
NewOp(kind) ==
  [kind |-> kind, pc |-> "await", screen |-> login.mounted,
   before |-> SessionState]

SignInKinds == {"google", "email", "signup", "phone"}
\* signInWithGoogle and signInWithEmail differ in the provider call they await
\* and in nothing else: an operation in progress is of one of three classes.
OpClass(kind) == IF kind \in {"google", "email"} THEN "signin" ELSE kind
OpClasses == {OpClass(kind) : kind \in SignInKinds}

\* A handler of LoginScreen (lines 59-62, 76-82, 153-155) calls setError('')
\* and then signInWithGoogle, signInWithEmail, signUpWithEmail or
\* signInWithPhone, which run up to their first await (lines 107, 123, 138,
\* 157).
SignInStart(kind) ==
  /\ LoginShown
  /\ login.mounted
  /\ Len(ops) < MaxPending
  /\ login' = [login EXCEPT !.error = ""]
  /\ loading' = TRUE
  /\ ops' = Append(ops, NewOp(OpClass(kind)))
  /\ hist' = [hist EXCEPT !.logout = "none", !.guestLast = FALSE,
                          !.restarted = FALSE, !.signInFailed = FALSE]
  /\ UNCHANGED <<serviceVars, authUser, authSubs, user, isGuest, effect,
                 app, timer>>

\* signInWithPopup, signInWithEmailAndPassword, createUserWithEmailAndPassword
\* succeed: the provider has a user.
ProviderSignsIn(j, u) ==
  /\ j \in DOMAIN ops
  /\ ops[j].kind \in {"signin", "signup"}
  /\ ops[j].pc = "await"
  /\ ops' = [ops EXCEPT ![j].pc = IF ops[j].kind = "signup" THEN "verify" ELSE "succeeded"]
  /\ AuthStateChanges(u)
  /\ UNCHANGED <<localStorage, remote, writes, subs, isGuest, effect, appVars, hist>>

\* signInWithPhoneNumber (the code is sent) or sendEmailVerification succeeds.
ProviderAccepts(j) ==
  /\ j \in DOMAIN ops
  /\ \/ ops[j].kind = "phone" /\ ops[j].pc = "await"
     \/ ops[j].kind = "signup" /\ ops[j].pc = "verify"
  /\ ops' = [ops EXCEPT ![j].pc = "succeeded"]
  /\ UNCHANGED <<serviceVars, authUser, authSubs, user, loading, isGuest,
                 effect, appVars, hist>>

\* The awaited provider call throws.
ProviderRejects(j) ==
  /\ j \in DOMAIN ops
  /\ ops[j].pc \in {"await", "verify"}
  /\ ops' = [ops EXCEPT ![j].pc = "failed"]
  /\ UNCHANGED <<serviceVars, authUser, authSubs, user, loading, isGuest,
                 effect, appVars, hist>>

\* The identity provider ends the session on its own (the user signed out
\* elsewhere, the account was disabled): the listeners are called with null.
ProviderReportsNull ==
  /\ authUser # NoUser
  /\ AuthStateChanges(NoUser)
  /\ UNCHANGED <<localStorage, remote, writes, subs, isGuest, effect, ops,
                 appVars, hist>>

\* signOut succeeds: the provider has no user.
ProviderSignsOut(j) ==
  /\ j \in DOMAIN ops
  /\ ops[j].kind = "logout"
  /\ ops[j].pc = "await"
  /\ ops' = [ops EXCEPT ![j].pc = "succeeded"]
  /\ AuthStateChanges(NoUser)
  /\ UNCHANGED <<localStorage, remote, writes, subs, isGuest, effect, appVars, hist>>

Without(seq, j) == [k \in 1..(Len(seq) - 1) |-> IF k < j THEN seq[k] ELSE seq[k + 1]]

RemoveGuestFlag_Keep(ls) == ls

\* localStorage.removeItem('moniclear_guest_user')
RemoveGuestFlag(ls) == [ls EXCEPT ![GuestKey] = NoItem]

\* The catch block of the LoginScreen handler that awaited the operation
\* (lines 63-65, 84-105, 156-158): setError(message), which sets the state of
\* a mounted instance only.
SetError(l, stillMounted) ==
  IF stillMounted /\ l.mounted THEN [l EXCEPT !.error = "message"] ELSE l

\* A sign-in operation after its awaits: lines 109-110, 125-126, 144-145,
\* 169-170 on success, the catch block otherwise; then the finally block, and
\* the handler of LoginScreen that awaited the operation.
FinishSignIn(j) ==
  /\ j \in DOMAIN ops
  /\ ops[j].kind \in OpClasses
  /\ ops[j].pc \in {"succeeded", "failed"}
  /\ ops' = Without(ops, j)
  /\ loading' = FALSE
  /\ IF ops[j].pc = "succeeded"
     THEN /\ isGuest' = FALSE
          /\ localStorage' = RemoveGuestFlag(localStorage)
          /\ hist' = [hist EXCEPT !.lastEntry = "signin", !.logout = "none",
                                  !.guestLast = FALSE, !.signInFailed = FALSE]
          /\ UNCHANGED login
     ELSE /\ login' = SetError(login, ops[j].screen)
          /\ hist' = [hist EXCEPT !.signInFailed = TRUE]
          /\ UNCHANGED <<isGuest, localStorage>>
  /\ UNCHANGED <<remote, writes, calls, subs, authUser, authSubs, user, effect,
                 app, timer>>

\* logout after await signOut(auth): lines 195-197, or the catch block.
FinishLogout(j) ==
  /\ j \in DOMAIN ops
  /\ ops[j].kind = "logout"
  /\ ops[j].pc \in {"succeeded", "failed"}
  /\ ops' = Without(ops, j)
  /\ IF ops[j].pc = "succeeded"
     THEN /\ user' = NoUser
          /\ isGuest' = FALSE
          /\ localStorage' = RemoveGuestFlag(localStorage)
          /\ hist' = [hist EXCEPT !.logout = "auth", !.guestLast = FALSE]
     ELSE UNCHANGED <<user, isGuest, localStorage, hist>>
  /\ UNCHANGED <<remote, writes, calls, subs, authUser, authSubs, loading,
                 effect, appVars>>

SetGuestFlag_Session(ls) == ls
\* Mutant of SetGuestFlag: another text is stored under the key.
SetGuestFlag_Other(ls) == [ls EXCEPT ![GuestKey] = <<"guest">>]

\* localStorage.setItem('moniclear_guest_user', 'true')
SetGuestFlag(ls) == [ls EXCEPT ![GuestKey] = <<"true">>]

\* signInAsGuest, lines 180-185, from the login screen.
SignInAsGuest ==
  /\ LoginShown
  /\ isGuest' = TRUE
  /\ user' = NoUser
  /\ localStorage' = SetGuestFlag(localStorage)
  /\ loading' = FALSE
  /\ hist' = [hist EXCEPT !.lastEntry = "guest", !.logout = "none",
                          !.guestLast = TRUE, !.restarted = FALSE,
                          !.signInFailed = FALSE]
  /\ UNCHANGED <<remote, writes, calls, subs, authUser, authSubs, effect, ops,
                 appVars>>

\* FirestoreService.cleanup, lines 149-154: the subscriptions of the registry
\* are unsubscribed and the registry is cleared.
Cleanup(listeners) == {l \in listeners : ~l.registered}

\* logout, lines 187-197, from the button of AuthenticatedApp, which is
\* rendered once isLoadingData is false (App.tsx lines 470-484, 586): up to
\* await signOut(auth) when not a guest, to the end for a guest.
Logout ==
  /\ app.mounted
  /\ ~app.isLoadingData
  /\ subs' = Cleanup(subs)
  /\ IF ~isGuest
     THEN /\ Len(ops) < MaxPending
          /\ ops' = Append(ops, NewOp("logout"))
          /\ hist' = [hist EXCEPT !.guestLast = FALSE, !.restarted = FALSE]
          /\ UNCHANGED <<user, isGuest, localStorage>>
     ELSE /\ user' = NoUser
          /\ isGuest' = FALSE
          /\ localStorage' = RemoveGuestFlag(localStorage)
          /\ hist' = [hist EXCEPT !.logout = "guest", !.guestLast = FALSE,
                                  !.restarted = FALSE]
          /\ UNCHANGED ops
  /\ UNCHANGED <<remote, writes, calls, authUser, authSubs, loading, effect,
                 appVars>>

(* --------- the reconcile operation on its own: SpecMigrate -------------- *)
\* A caller invokes migrateLocalDataToFirestore(uid) once the previous
\* invocation has returned.
DirectMigrate(uid) ==
  /\ Len(calls) < MaxCalls
  /\ \A i \in DOMAIN calls : calls[i].pc = "done"
  /\ calls' = Append(calls, MigrateEnter(NewCall(uid, "direct")))
  /\ hist' = [hist EXCEPT !.local = localStorage[DataKey], !.remote = remote]
  /\ UNCHANGED <<localStorage, remote, writes, subs, authVars, appVars>>

LocalTexts == {NoItem, BadText} \cup {JSONstringify(r) : r \in LocalRecords}
\* The stores at the start of a session.
SessionLocalTexts ==
  {NoItem, JSONstringify([DefaultData EXCEPT !.weeklyEstimate = 30, !.bills = <<Bill1>>])}
SessionRemoteDocs ==
  {NoDoc, [DefaultData EXCEPT !.weeklyEstimate = 70],
   [DefaultData EXCEPT !.expenses = <<Expense1>>]}

InitMigrate ==
  /\ localStorage \in [{DataKey, GuestKey} -> LocalTexts \cup {<<"true">>}]
  /\ localStorage[GuestKey] = NoItem
  /\ localStorage[DataKey] \in LocalTexts
  /\ remote \in [Users -> {NoDoc} \cup RemoteRecords]
  /\ writes = <<>>
  /\ calls = <<>>
  /\ subs = {}
  /\ authUser = NoUser
  /\ authSubs = <<>>
  /\ user = NoUser
  /\ loading = TRUE
  /\ isGuest = FALSE
  /\ effect = "unmounted"
  /\ ops = <<>>
  /\ app = NoApp
  /\ timer = NoTimer
  /\ login = NoLogin
  /\ hist = StartHist(localStorage, remote)

NextMigrate ==
  \/ \E uid \in Users : DirectMigrate(uid)
  \/ \E i \in DOMAIN calls, ok \in BOOLEAN : GetDocCompletes(i, ok)
  \/ \E i \in DOMAIN calls, ok \in BOOLEAN : InitWriteCompletes(i, ok)
  \/ \E i \in DOMAIN calls, ok \in BOOLEAN : SaveWriteCompletes(i, ok)

SpecMigrate == InitMigrate /\ [][NextMigrate]_vars

(* ---------------------------- AuthenticatedApp -------------------------- *)
\* FirestoreService.listenForUserData, lines 87-104: a new subscription,
\* stored in the registry under 'user-' + uid in place of the one stored there.
\* live: the component whose callback it calls is still mounted.
ListenForUserData(listeners, uid) ==
  {[l EXCEPT !.registered = IF l.id = uid THEN FALSE ELSE @] : l \in listeners}
    \cup {[uid |-> uid, id |-> uid, live |-> TRUE, dirty |-> TRUE, registered |-> TRUE]}

\* FirestoreService.stopListening, lines 107-113.
StopListening(listeners, id) ==
  {l \in listeners : ~(l.registered /\ l.id = id)}

\* The cleanup of the load effect, lines 117-121, with the firestoreListenerId
\* it closed over.
LoadCleanup(listeners, id) ==
  IF id # NoListenerId THEN StopListening(listeners, id) ELSE listeners

\* loadData, lines 69-112, for the component state a.
LoadData(a) ==
  IF user # NoUser /\ ~isGuest
  THEN [a EXCEPT !.isLoadingData = TRUE, !.firestoreListenerId = user]
  ELSE LET saved == localStorage[DataKey]
       IN IF saved = NoItem
          THEN [a EXCEPT !.data = DefaultData, !.isLoadingData = FALSE]
          ELSE IF JSONparses(saved)
          THEN [a EXCEPT !.data = JSONparse(saved), !.isLoadingData = FALSE]
          ELSE [a EXCEPT !.isLoadingData = TRUE]

\* AuthenticatedApp is to be mounted or unmounted, or its load effect is to
\* run again because user or isGuest changed.
AppRenderPending ==
  \/ app.mounted # AppShown
  \/ app.mounted /\ (app.depUser # user \/ app.depIsGuest # isGuest)

RenderPending ==
  \/ AppRenderPending
  \/ login.mounted # LoginShown

\* The operations whose LoginScreen instance is unmounted by the render.
Unmounted(pending) ==
  IF login.mounted /\ ~LoginShown
  THEN [j \in DOMAIN pending |-> [pending[j] EXCEPT !.screen = FALSE]]
  ELSE pending

\* Mutant of SaveEffect: a timer already set is left to fire with its data.
SaveEffect_Throttle(a) ==
  IF timer.set THEN timer
  ELSE IF user # NoUser /\ ~isGuest /\ ~a.isLoadingData
  THEN [set |-> TRUE, uid |-> user, data |-> a.data]
  ELSE NoTimer

\* Mutant of SaveEffect: isLoadingData is not looked at.
SaveEffect_Always(a) ==
  IF user # NoUser /\ ~isGuest
  THEN [set |-> TRUE, uid |-> user, data |-> a.data]
  ELSE NoTimer

\* The save effect, lines 125-134: the timer of the previous run is cleared
\* and, for a user whose data is loaded, a timer is set with the data.
SaveEffect(a) ==
  IF user # NoUser /\ ~isGuest /\ ~a.isLoadingData
  THEN [set |-> TRUE, uid |-> user, data |-> a.data]
  ELSE NoTimer

\* App renders (lines 928-953) and the effects run. LoginScreen is mounted,
\* with the initial state of line 22, or unmounted. AuthenticatedApp is
\* unmounted, or mounted, or its load effect runs again because user or
\* isGuest changed (lines 68-122), and its save effect (lines 125-134) runs
\* with the state that loadData leaves.
AppRender ==
  /\ RenderPending
  /\ login' = IF LoginShown
              THEN (IF login.mounted THEN login ELSE [NoLogin EXCEPT !.mounted = TRUE])
              ELSE NoLogin
  /\ ops' = Unmounted(ops)
  /\ IF ~AppRenderPending
     THEN UNCHANGED <<app, subs, timer>>
     ELSE IF ~AppShown
          THEN /\ app' = NoApp
               /\ timer' = NoTimer
               /\ subs' = {[l EXCEPT !.live = FALSE, !.dirty = FALSE] :
                             l \in LoadCleanup(subs, app.cleanupId)}
          ELSE LET a == IF app.mounted THEN app ELSE [NoApp EXCEPT !.mounted = TRUE]
                   kept == IF app.mounted THEN LoadCleanup(subs, app.cleanupId)
                           ELSE subs
               IN /\ app' = [LoadData(a) EXCEPT !.depUser = user,
                                               !.depIsGuest = isGuest,
                                               !.cleanupId = a.firestoreListenerId,
                                               !.saveDue = FALSE]
                  /\ timer' = SaveEffect(LoadData(a))
                  /\ subs' = IF user # NoUser /\ ~isGuest
                             THEN ListenForUserData(kept, user) ELSE kept
  /\ hist' = IF AppRenderPending THEN [hist EXCEPT !.burst = 0] ELSE hist
  /\ UNCHANGED <<localStorage, remote, writes, calls, authUser, authSubs, user,
                 loading, isGuest, effect>>

\* The snapshot callback of lines 74-91 is called with the document as the
\* client sees it: setData, setIsLoadingData(false).
SnapshotDelivered(l) ==
  /\ l \in subs
  /\ l.dirty
  /\ l.live
  /\ subs' = (subs \ {l}) \cup {[l EXCEPT !.dirty = FALSE]}
  /\ LET doc == View(remote[l.uid], writes, l.uid)
         firestoreData == IF doc = NoDoc THEN DefaultData ELSE doc
     IN app' = [app EXCEPT !.data = firestoreData, !.isLoadingData = FALSE,
                           !.saveDue = TRUE]
  /\ hist' = [hist EXCEPT !.burst = 0]
  /\ UNCHANGED <<localStorage, remote, writes, calls, authVars, timer, login>>

\* The error callback of onSnapshot, part_001 lines 97-100, calls the
\* callback of lines 74-91 with null: the default record is set and
\* isLoadingData becomes false. The subscription delivers nothing after it.
SnapshotError(l) ==
  /\ l \in subs
  /\ l.live
  /\ subs' = subs \ {l}
  /\ app' = [app EXCEPT !.data = DefaultData, !.isLoadingData = FALSE,
                        !.saveDue = TRUE]
  /\ hist' = [hist EXCEPT !.burst = 0, !.failed = TRUE]
  /\ UNCHANGED <<localStorage, remote, writes, calls, authVars, timer, login>>

\* A click handler of AuthenticatedApp calls setData(prev => new): the
\* component renders and its save effect runs before the next task. The
\* handlers are rendered once isLoadingData is false (lines 470-484). h is
\* the history with what the handler did.
SetData(new, h) ==
  /\ app.mounted
  /\ ~app.isLoadingData
  /\ app' = [app EXCEPT !.data = new]
  /\ timer' = SaveEffect([app EXCEPT !.data = new])
  /\ hist' = IF user # NoUser /\ ~isGuest
             THEN [h EXCEPT !.burst = IF @ < MaxBurst THEN @ + 1 ELSE @,
                            !.unsaved = [uid |-> user, data |-> new]]
             ELSE [h EXCEPT !.guestRecord = new]
  /\ UNCHANGED <<serviceVars, authVars, login>>

Mutate(new) == SetData(new, hist)

\* AuthenticatedApp renders with the data set by the snapshot callback and
\* its save effect runs.
SaveEffectRuns ==
  /\ app.mounted
  /\ app.saveDue
  /\ app' = [app EXCEPT !.saveDue = FALSE]
  /\ timer' = SaveEffect(app)
  /\ UNCHANGED <<serviceVars, authVars, login, hist>>

\* The timeout of line 128 fires: saveUserData(user.uid, data) is called
\* with the data the effect that set the timer closed over.
TimerFires ==
  /\ timer.set
  /\ Issue(Write(timer.uid, timer.data, FALSE, <<"timer", 0>>))
  /\ timer' = NoTimer
  /\ hist' = [hist EXCEPT !.burst = 0,
                          !.unsaved = IF @ = [uid |-> timer.uid, data |-> timer.data]
                                      THEN Null ELSE @]
  /\ UNCHANGED <<localStorage, remote, calls, authVars, app, login>>

\* A write whose result no continuation of the migration uses: the save of
\* the timer.
Awaited(w) ==
  /\ w.owner[1] \in {"init", "save"}
  /\ w.owner[2] \in DOMAIN calls
  /\ calls[w.owner[2]].pc = (IF w.owner[1] = "init" THEN "initWrite" ELSE "saveWrite")

Saves == Cardinality({k \in DOMAIN writes : writes[k].owner[1] = "timer"})

\* saveUserData called at line 129 completes; its result is not used.
WriteCompletes(ok) ==
  /\ writes # <<>>
  /\ ~Awaited(Head(writes))
  /\ CompleteHead(ok, <<>>)
  /\ hist' = [hist EXCEPT !.failed = @ \/ ~ok]
  /\ UNCHANGED <<localStorage, calls, authVars, appVars>>

\* The page is reloaded, while no remote request is in progress: the durable
\* store, the remote store and the provider's session stay; everything in
\* memory starts again.
Reload ==
  /\ writes = <<>>
  /\ calls = <<>>
  /\ subs' = {}
  /\ authSubs' = <<>>
  /\ user' = NoUser
  /\ loading' = TRUE
  /\ isGuest' = FALSE
  /\ effect' = "unmounted"
  /\ ops' = <<>>
  /\ app' = NoApp
  /\ timer' = NoTimer
  /\ login' = NoLogin
  /\ hist' = [hist EXCEPT !.restarted = TRUE, !.signInFailed = FALSE,
                          !.burst = 0]
  /\ UNCHANGED <<localStorage, remote, writes, calls, authUser>>

(* ------------------------- the whole session: Spec ---------------------- *)
Init ==
  /\ localStorage \in [{DataKey, GuestKey} -> LocalTexts \cup {<<"true">>}]
  /\ localStorage[GuestKey] \in {NoItem, <<"true">>}
  /\ localStorage[DataKey] \in SessionLocalTexts
  /\ remote \in [Users -> SessionRemoteDocs]
  /\ authUser \in Users \cup {NoUser}
  /\ localStorage[GuestKey] = <<"true">> => authUser = NoUser
  /\ writes = <<>>
  /\ calls = <<>>
  /\ subs = {}
  /\ authSubs = <<>>
  /\ user = NoUser
  /\ loading = TRUE
  /\ isGuest = FALSE
  /\ effect = "unmounted"
  /\ ops = <<>>
  /\ app = NoApp
  /\ timer = NoTimer
  /\ login = NoLogin
  /\ hist = StartHist(localStorage, remote)

\* Continuations that run before the next task: the rest of an operation whose
\* await has resolved, the rest of the auth callback.
FinishPending == \E j \in DOMAIN ops : ops[j].pc \in {"succeeded", "failed"}
ResumePending == \E i \in DOMAIN calls : calls[i].caller = "auth" /\ calls[i].pc = "done"
EffectPending == effect # BoolStr(isGuest)
InitialPending ==
  /\ \E j \in DOMAIN authSubs : authSubs[j].initial
  /\ authUser = NoUser \/ InFlight < MaxInFlight
SavePending == app.mounted /\ app.saveDue
\* The session operations, the renders and the effects of AuthProvider and App
\* have run: a task already due (a timer) may run.
Idle ==
  ~(FinishPending \/ ResumePending \/ RenderPending \/ EffectPending \/ InitialPending)
\* The save effect has run too: the next event is taken.
Settled == Idle /\ ~SavePending

\* The steps of AuthProvider and of the identity provider. An auth callback
\* is given a user only while fewer than MaxInFlight invocations of
\* migrateLocalDataToFirestore are in progress: until then a new listener's
\* first call waits and no sign-in resolves.
Room == InFlight < MaxInFlight

AuthNext ==
  \/ \E j \in 1..MaxPending : FinishSignIn(j)
  \/ \E j \in 1..MaxPending : FinishLogout(j)
  \/ ~FinishPending /\ \E i \in DOMAIN calls : CallbackResumes(i)
  \/ ~(FinishPending \/ ResumePending) /\ AppRender
  \/ ~(FinishPending \/ ResumePending \/ RenderPending) /\ AuthEffect
  \/ ~(FinishPending \/ ResumePending \/ RenderPending \/ EffectPending)
       /\ InitialPending
       /\ \E j \in DOMAIN authSubs : InitialCallback(j)
  \/ Settled /\ \E kind \in SignInKinds : SignInStart(kind)
  \/ Settled /\ SignInAsGuest
  \/ Settled /\ Logout
  \/ Settled /\ Room /\ \E j \in 1..MaxPending, u \in Users : ProviderSignsIn(j, u)
  \/ Settled /\ \E j \in 1..MaxPending : ProviderAccepts(j)
  \/ Settled /\ \E j \in 1..MaxPending : ProviderRejects(j)
  \/ Settled /\ \E j \in 1..MaxPending : ProviderSignsOut(j)

\* The steps of the remote store that complete a read or a write of the
\* migration, with the outcomes oks.
StoreNext(oks) ==
  \/ Settled /\ \E i \in DOMAIN calls, ok \in oks : GetDocCompletes(i, ok)
  \/ Settled /\ \E i \in DOMAIN calls, ok \in oks : InitWriteCompletes(i, ok)
  \/ Settled /\ \E i \in DOMAIN calls, ok \in oks : SaveWriteCompletes(i, ok)

\* The record session: AuthProvider, the migration, and the subscription and
\* the debounced save of AuthenticatedApp, with a remote store whose reads
\* and writes succeed.
Next ==
  \/ AuthNext
  \/ StoreNext({TRUE})
  \/ Settled /\ WriteCompletes(TRUE)
  \/ Settled /\ \E l \in subs : SnapshotDelivered(l)
  \/ Idle /\ SaveEffectRuns
  \/ Idle /\ Saves < MaxSaves /\ TimerFires

Spec == Init /\ [][Next]_vars

(* --------------- the session state holder: SpecAuth --------------------- *)
\* AuthProvider over any number of sign-ins, guest entries, logouts and
\* reloads, with a remote store whose reads and writes may fail and an
\* identity provider that may end the session on its own. The snapshot
\* callback runs, since the logout button is rendered after it; the save
\* timer, which reads and writes no state of AuthProvider, is set and
\* cleared and never fires.
InitAuth ==
  /\ Init
  /\ remote \in [Users -> {NoDoc}]

NextAuth ==
  \/ AuthNext
  \/ StoreNext(BOOLEAN)
  \/ Settled /\ Reload
  \/ Settled /\ ProviderReportsNull
  \/ Settled /\ \E l \in subs : SnapshotDelivered(l)
  \/ Idle /\ SaveEffectRuns

SpecAuth == InitAuth /\ [][NextAuth]_vars

(* ------------- the record session with its mutations: SpecSave ---------- *)
\* The record of the user's remote document when the session starts.
SavedRecord == [DefaultData EXCEPT !.weeklyEstimate = 70, !.bills = <<Bill1>>]

\* No guest record is in the local store, so the migration returns at once.
InitSave ==
  /\ localStorage \in [{DataKey, GuestKey} -> {NoItem, <<"true">>}]
  /\ localStorage[DataKey] = NoItem
  /\ remote = [uid \in Users |-> SavedRecord]
  /\ authUser \in Users \cup {NoUser}
  /\ localStorage[GuestKey] = <<"true">> => authUser = NoUser
  /\ writes = <<>>
  /\ calls = <<>>
  /\ subs = {}
  /\ authSubs = <<>>
  /\ user = NoUser
  /\ loading = TRUE
  /\ isGuest = FALSE
  /\ effect = "unmounted"
  /\ ops = <<>>
  /\ app = NoApp
  /\ timer = NoTimer
  /\ login = NoLogin
  /\ hist = StartHist(localStorage, remote)

\* AuthProvider, the subscription and the debounced save of AuthenticatedApp,
\* the clicks that change the record, and reloads; the remote writes succeed.
NextSave ==
  \/ AuthNext
  \/ Settled /\ WriteCompletes(TRUE)
  \/ Settled /\ \E l \in subs : SnapshotDelivered(l)
  \/ Idle /\ SaveEffectRuns
  \/ Idle /\ Saves < MaxSaves /\ TimerFires
  \/ Settled /\ \E new \in Mutations(app.data) : Mutate(new)
  \/ Settled /\ Reload

SpecSave == InitSave /\ [][NextSave]_vars

\* The tasks the event loop runs without waiting for the user: what AuthNext
\* runs before the session is settled, the save effect, a timer that is set,
\* a snapshot to deliver, the completion of a remote write.
Scheduled ==
  \/ ~Settled /\ AuthNext
  \/ Idle /\ SaveEffectRuns
  \/ Idle /\ Saves < MaxSaves /\ TimerFires
  \/ Settled /\ WriteCompletes(TRUE)
  \/ Settled /\ \E l \in subs : SnapshotDelivered(l)

FairSpecSave == SpecSave /\ WF_vars(Scheduled)

(* ------------- a session whose storage fails: SpecFail ------------------ *)
\* AuthProvider, the subscription, its errors and the debounced save of
\* AuthenticatedApp, and reloads; the user changes nothing in the record;
\* the remote writes succeed or fail.
NextFail ==
  \/ AuthNext
  \/ Settled /\ \E ok \in BOOLEAN : WriteCompletes(ok)
  \/ Settled /\ \E l \in subs : SnapshotDelivered(l)
  \/ Settled /\ \E l \in subs : SnapshotError(l)
  \/ Idle /\ SaveEffectRuns
  \/ Idle /\ Saves < MaxSaves /\ TimerFires
  \/ Settled /\ Reload

SpecFail == InitSave /\ [][NextFail]_vars

(* ----------- the record, its aggregates and purchases: SpecRecord ------- *)
\* the most income entries and the most wishlist items of a record
MaxIncomes == 3
MaxWishes == 2

\* The k-th income entry: 2^53 for the first, 1 for the others.
IncomeEntry(k) ==
  [id |-> <<"i", k>>, amount |-> IF k = 1 THEN Double(1, 0) ELSE Double(0, 1),
   date |-> "d1"]
\* The k-th wishlist item.
WishlistEntry(k) ==
  [id |-> <<"w", k>>, name |-> IF k = 1 THEN "Bike" ELSE "Book",
   price |-> Double(0, 120 + k), priority |-> "Medium", isPinned |-> FALSE]

\* The sequences without repetition of the numbers 1..n.
Arrangements(n) ==
  {q \in UNION {[1..m -> 1..n] : m \in 0..n} :
     \A a, b \in DOMAIN q : a # b => q[a] # q[b]}
IncomeLists ==
  {[k \in DOMAIN p |-> IncomeEntry(p[k])] : p \in Arrangements(MaxIncomes)}
Wishlists ==
  {[k \in DOMAIN p |-> WishlistEntry(p[k])] : p \in Arrangements(MaxWishes)}

\* The estimate, the bills and the expenses of a record: none; a paid
\* deposit and an expense; an unpaid bill and a paid bill that is no deposit.
Ledgers ==
  {[weeklyEstimate |-> Double(0, 0), bills |-> <<>>, expenses |-> <<>>],
   [weeklyEstimate |-> Double(0, 70),
    bills |-> <<[id |-> "b1", name |-> "Rent", amount |-> Double(0, 50),
                 dueDate |-> "d1", isPaid |-> TRUE, isDeposit |-> TRUE]>>,
    expenses |-> <<[id |-> "e1", description |-> <<"Lunch">>,
                    amount |-> Double(0, 7), category |-> "Food",
                    date |-> "d1"]>>],
   [weeklyEstimate |-> Double(0, 70),
    bills |-> <<[id |-> "b1", name |-> "Rent", amount |-> Double(0, 50),
                 dueDate |-> "d1", isPaid |-> FALSE],
                [id |-> "b2", name |-> "Power", amount |-> Double(0, 20),
                 dueDate |-> "d2", isPaid |-> TRUE, isDeposit |-> FALSE]>>,
    expenses |-> <<>>]}

Records ==
  {[weeklyEstimate |-> l.weeklyEstimate, incomeHistory |-> i, bills |-> l.bills,
    wishlist |-> w, expenses |-> l.expenses] :
     l \in Ledgers, i \in IncomeLists, w \in Wishlists}

\* A guest session showing the record read from the local store.
InitRecord ==
  /\ \E r \in Records :
       /\ localStorage = [k \in {DataKey, GuestKey} |->
                            IF k = DataKey THEN JSONstringify(r) ELSE <<"true">>]
       /\ app = [NoApp EXCEPT !.mounted = TRUE, !.isLoadingData = FALSE,
                              !.data = r, !.depIsGuest = TRUE]
  /\ remote = [uid \in Users |-> NoDoc]
  /\ writes = <<>>
  /\ calls = <<>>
  /\ subs = {}
  /\ authUser = NoUser
  /\ authSubs = <<>>
  /\ user = NoUser
  /\ loading = FALSE
  /\ isGuest = TRUE
  /\ effect = "true"
  /\ ops = <<>>
  /\ timer = NoTimer
  /\ login = NoLogin
  /\ hist = StartHist(localStorage, remote)

Sequences == {"incomeHistory", "bills", "wishlist", "expenses"}

\* The record with entries k and k + 1 of one of its sequences exchanged.
Exchanged(d, f, k) ==
  [d EXCEPT ![f] = [@ EXCEPT ![k] = d[f][k + 1], ![k + 1] = d[f][k]]]

\* The record the session starts with is given with a sequence in another
\* order, in the local store and on the screen.
Permute(f, k) ==
  /\ app.mounted
  /\ hist.guestRecord = Null
  /\ k + 1 \in DOMAIN app.data[f]
  /\ app' = [app EXCEPT !.data = Exchanged(app.data, f, k)]
  /\ localStorage' = [localStorage EXCEPT
                        ![DataKey] = JSONstringify(Exchanged(app.data, f, k))]
  /\ hist' = [hist EXCEPT !.local = JSONstringify(Exchanged(app.data, f, k))]
  /\ UNCHANGED <<remote, writes, calls, subs, authVars, timer, login>>

\* A click on the purchase button rendered for an item of the wishlist.
Purchase(item, generated, today) ==
  SetData(MarkWishlistAsPurchased(app.data, item, generated, today),
          [hist EXCEPT !.purchased = @ \cup {item.id}])

NextRecord ==
  \/ \E f \in Sequences : \E k \in 1..(MaxIncomes + MaxWishes) : Permute(f, k)
  \/ \E k \in DOMAIN app.data.wishlist : \E g \in GeneratedIds : \E t \in Dates :
        Purchase(app.data.wishlist[k], g, t)

SpecRecord == InitRecord /\ [][NextRecord]_vars

(* ------------- the user's actions on the record: SpecActions ------------ *)
\* the most entries of a record, over its four sequences
MaxEntries == 2

\* What the user types for an income and a bill: no digits, -5, 20.
Texts == {Text(FALSE, FALSE, 0), Text(TRUE, TRUE, 5), Text(TRUE, FALSE, 20)}
\* What the user types for the forecast, an expense and the price of a
\* wishlist item: no digits, -5.
NegativeTexts == {Text(FALSE, FALSE, 0), Text(TRUE, TRUE, 5)}
Names == {"", "Bike"}
Descriptions == {<<>>, <<"Lunch">>}
Categories == {"Food"}

\* The record of lines 50-56, its number written as a double.
EmptyRecord == [DefaultData EXCEPT !.weeklyEstimate = Double(0, 0)]

Entries(d) ==
  Len(d.incomeHistory) + Len(d.bills) + Len(d.wishlist) + Len(d.expenses)
Ids(q) == {q[k].id : k \in DOMAIN q}

\* A guest session with nothing in the local store: the record is empty.
InitActions ==
  /\ localStorage = [k \in {DataKey, GuestKey} |->
                       IF k = DataKey THEN NoItem ELSE <<"true">>]
  /\ app = [NoApp EXCEPT !.mounted = TRUE, !.isLoadingData = FALSE,
                         !.data = EmptyRecord, !.depIsGuest = TRUE]
  /\ remote = [uid \in Users |-> NoDoc]
  /\ writes = <<>>
  /\ calls = <<>>
  /\ subs = {}
  /\ authUser = NoUser
  /\ authSubs = <<>>
  /\ user = NoUser
  /\ loading = FALSE
  /\ isGuest = TRUE
  /\ effect = "true"
  /\ ops = <<>>
  /\ timer = NoTimer
  /\ login = NoLogin
  /\ hist = StartHist(localStorage, remote)

\* "Save Forecast", lines 664-667.
SaveForecast(incomeInput) ==
  Mutate(SetWeeklyEstimate(app.data, OrZero(ParseFloat(incomeInput))))

\* "Marked Paid", lines 669-679.
MarkedPaid(incomeInput, generated, today) ==
  LET amt == OrZero(ParseFloat(incomeInput))
  IN /\ Positive(amt)
     /\ Entries(app.data) < MaxEntries
     /\ Mutate(MarkIncomePaid(app.data, amt, generated, today))

\* The delete buttons of the four lists, lines 702, 762, 811 and 872.
DeleteIncome(id) == Mutate(RemoveIncome(app.data, id))
DeleteBill(id) == Mutate(RemoveBill(app.data, id))
DeleteExpense(id) == Mutate(RemoveExpense(app.data, id))
DeleteWishlist(id) == Mutate(RemoveWishlist(app.data, id))

\* "Add Commitment", lines 730-743.
AddCommitment(nameVal, a, dateVal, generated) ==
  LET amtVal == ParseFloat(a)
  IN /\ nameVal # ""
     /\ amtVal # NaN
     /\ Entries(app.data) < MaxEntries
     /\ Mutate(AddBill(app.data, nameVal, amtVal, dateVal, generated))

\* The paid mark of a bill, line 761.
TogglePaid(id) == Mutate(ToggleBillPaid(app.data, id))

\* "Record Spend", lines 777-790.
RecordSpend(descVal, a, catVal, generated, today) ==
  LET amtVal == ParseFloat(a)
  IN /\ descVal # <<>>
     /\ amtVal # NaN
     /\ Entries(app.data) < MaxEntries
     /\ Mutate(AddExpense(app.data, descVal, amtVal, catVal, generated, today))

\* "Add to Wishlist", lines 826-846.
AddToWishlist(nameVal, p, generated) ==
  LET cleanPrice == ParseFloat(StripNonDigits(p))
  IN /\ nameVal # ""
     /\ cleanPrice # NaN
     /\ Entries(app.data) < MaxEntries
     /\ Mutate(AddWishlist(app.data, nameVal, cleanPrice, generated))

\* The pin of a wishlist item, lines 394 and 860.
Pin(id) == Mutate(TogglePin(app.data, id))

\* What the handler of a purchase button reads of the item it was rendered
\* with (lines 176-182).
Button(w) == [id |-> w.id, name |-> w.name, price |-> w.price]
\* The items whose purchase buttons are on the screen: those of the view
\* that is animating out, if there is one, else those of the record.
Buttons ==
  IF app.exiting # {} THEN app.exiting
  ELSE {Button(app.data.wishlist[k]) : k \in DOMAIN app.data.wishlist}

\* setActiveTab, line 192, while the wishlist is shown: under
\* AnimatePresence mode="wait" (lines 634-641) the view of the tab left
\* stays on the screen as last rendered until its exit animation ends.
LeaveTab ==
  /\ app.mounted
  /\ app.exiting = {}
  /\ app.data.wishlist # <<>>
  /\ app' = [app EXCEPT !.exiting = Buttons]
  /\ UNCHANGED <<serviceVars, authVars, timer, login, hist>>

\* The exit animation ends (0.2 s, line 640) and the next tab is rendered.
ExitEnds ==
  /\ app.exiting # {}
  /\ app' = [app EXCEPT !.exiting = {}]
  /\ UNCHANGED <<serviceVars, authVars, timer, login, hist>>

NextActions ==
  \/ \E t \in NegativeTexts : SaveForecast(t)
  \/ \E t \in Texts : \E g \in GeneratedIds : \E d \in Dates : MarkedPaid(t, g, d)
  \/ \E id \in Ids(app.data.incomeHistory) : DeleteIncome(id)
  \/ \E n \in Names : \E t \in Texts : \E d \in Dates : \E g \in GeneratedIds :
        AddCommitment(n, t, d, g)
  \/ \E id \in Ids(app.data.bills) : TogglePaid(id)
  \/ \E id \in Ids(app.data.bills) : DeleteBill(id)
  \/ \E n \in Descriptions : \E t \in NegativeTexts : \E c \in Categories :
        \E g \in GeneratedIds : \E d \in Dates : RecordSpend(n, t, c, g, d)
  \/ \E id \in Ids(app.data.expenses) : DeleteExpense(id)
  \/ \E n \in Names : \E t \in NegativeTexts : \E g \in GeneratedIds : AddToWishlist(n, t, g)
  \/ \E id \in Ids(app.data.wishlist) : Pin(id)
  \/ \E id \in Ids(app.data.wishlist) : DeleteWishlist(id)
  \/ \E item \in Buttons : \E g \in GeneratedIds : \E d \in Dates :
        Len(app.data.expenses) < MaxEntries /\ Purchase(item, g, d)
  \/ LeaveTab
  \/ ExitEnds

SpecActions == InitActions /\ [][NextActions]_vars

(* ------------------------- the claims, C1 to C6 ------------------------- *)
\* The invocation in progress or last completed, when there is one; the
\* stores when it started are hist.local and hist.remote.
LastCall == calls[Len(calls)]
LastDone == calls # <<>> /\ LastCall.pc = "done"

\* The claims' own words for a record with at least one non-empty sequence.
AnySequenceNonEmpty(r) ==
  /\ r # NoDoc
  /\ r # Null
  /\ \E f \in {"bills", "expenses", "wishlist", "incomeHistory"} : r[f] # <<>>

\* C1: when the guest-local record is present and the remote read returns a
\* record with at least one non-empty sequence, the call leaves the remote
\* document and the local store entry as they were and returns true.
C1_RemoteWins ==
  (/\ LastDone
   /\ LastCall.parsed # Null
   /\ ~LastCall.readFailed
   /\ AnySequenceNonEmpty(LastCall.existing))
  => /\ remote = hist.remote
     /\ localStorage[DataKey] = hist.local
     /\ LastCall.result = TRUE

C1_Witness ==
  /\ LastDone
  /\ LastCall.parsed # Null
  /\ AnySequenceNonEmpty(LastCall.existing)
  /\ LastCall.existing.incomeHistory # <<>>
  /\ LastCall.result = TRUE

\* C2: when the local record L is present, the remote document is absent or
\* has its four sequences empty (whatever its weeklyEstimate) and every remote
\* operation succeeds, the call ends with the remote document equal to L and
\* the local store key absent.
C2_EmptyRemote ==
  (/\ LastDone
   /\ hist.local # NoItem
   /\ JSONparses(hist.local)
   /\ ~AnySequenceNonEmpty(hist.remote[LastCall.uid])
   /\ ~LastCall.readFailed
   /\ ~LastCall.writeFailed)
  => /\ remote[LastCall.uid] = JSONparse(hist.local)
     /\ localStorage[DataKey] = NoItem

C2_Witness ==
  /\ LastDone
  /\ LastCall.saved
  /\ ~LastCall.readFailed
  /\ ~LastCall.writeFailed
  /\ hist.remote[LastCall.uid] # NoDoc
  /\ hist.remote[LastCall.uid].weeklyEstimate > 0
  /\ remote[LastCall.uid] = JSONparse(hist.local)
  /\ remote[LastCall.uid].bills # <<>>
  /\ localStorage[DataKey] = NoItem

\* C3: a remote document that holds at least one non-empty sequence when the
\* call starts is never overwritten by the call, in any execution.
C3_ExistingDataWins ==
  (calls # <<>> /\ AnySequenceNonEmpty(hist.remote[LastCall.uid]))
  => remote = hist.remote

\* C4: the local store key is removed only when the remote write of the local
\* record succeeded, so the guest record is in the local store or in the
\* remote document.
C4_DeletedOnlyOnSuccess ==
  (calls # <<>> /\ LastCall.parsed # Null)
  => /\ (LastCall.saved /\ LastCall.writeFailed)
          => localStorage[DataKey] = hist.local
     /\ \/ localStorage[DataKey] = hist.local
        \/ remote[LastCall.uid] = LastCall.parsed

\* C5: saveUserData returns false exactly when its write failed, and
\* migrateLocalDataToFirestore returns true only when every remote operation
\* it performed succeeded.
C5_FailuresReported ==
  calls # <<>>
  => /\ LastCall.saved => (LastCall.saveRet = FALSE <=> LastCall.writeFailed)
     /\ LastDone =>
          (LastCall.result = TRUE
             => ~(LastCall.readFailed \/ LastCall.writeFailed))

\* C6: a second call right after a completed first call changes neither the
\* remote document nor the local store.
C6_Idempotent ==
  (Len(calls) = 2 /\ calls[2].pc = "done")
  => /\ remote = hist.remote
     /\ localStorage[DataKey] = hist.local

(* ------------------------- the claims, C7 to C10 ------------------------ *)
\* Nothing is in progress: no continuation, render or effect is due, no
\* remote request or session operation is awaited, no debounce timer is set
\* and no snapshot is left to deliver.
Quiescent ==
  /\ Settled
  /\ writes = <<>>
  /\ calls = <<>>
  /\ ops = <<>>
  /\ ~timer.set
  /\ \A l \in subs : ~l.dirty

\* C7: when the session of a user who signed in with a local record L and a
\* remote document absent or with all sequences empty has come to rest, its
\* subscription active and its snapshots delivered, with no remote operation
\* failed, the remote document is L and the record shown is L.
C7_GuestDataSurvives ==
  (/\ Quiescent
   /\ app.mounted
   /\ user # NoUser
   /\ ~isGuest
   /\ ~app.isLoadingData
   /\ \E l \in subs : l.live /\ l.uid = user
   /\ ~hist.failed
   /\ hist.local # NoItem
   /\ ~AnySequenceNonEmpty(hist.remote[user]))
  => /\ remote[user] = JSONparse(hist.local)
     /\ app.data = JSONparse(hist.local)

\* The invocations of migrateLocalDataToFirestore that a step starts.
Started == IF InFlight' > InFlight THEN InFlight' - InFlight ELSE 0

\* C8: a step starts the migration only when it takes the session from no
\* user to the user the identity provider reports, and such a step starts
\* it exactly once.
C8_OncePerTransition ==
  [][/\ Started > 0 => (user = NoUser /\ user' # NoUser /\ user' = authUser')
     /\ (user = NoUser /\ user' # NoUser) => Started = 1]_vars

C8_Witness ==
  /\ user # NoUser
  /\ user = authUser
  /\ InFlight = 1
  /\ \E i \in DOMAIN calls : calls[i].caller = "auth" /\ calls[i].pc = "getDoc"

\* C9: from the successful end of a sign-in operation until signInAsGuest is
\* called, isGuest is false and the key 'moniclear_guest_user' is absent.
C9_GuestFlagCleared ==
  hist.lastEntry = "signin"
  => /\ ~isGuest
     /\ localStorage[GuestKey] = NoItem

C9_Witness ==
  /\ hist.lastEntry = "signin"
  /\ ops = <<>>
  /\ user # NoUser
  /\ app.mounted

\* C10: the state never has a user together with isGuest true.
C10_GuestXorUser == ~(user # NoUser /\ isGuest)

\* The identity provider has a user while the session is a guest's.
C10_Witness ==
  /\ isGuest
  /\ authUser # NoUser
  /\ user = NoUser

(* ------------------------ the claims, C11 to C20 ------------------------ *)
\* C11: once a logout has completed and the session has settled, with no
\* sign-in operation or guest entry since, user is null, isGuest is false, the
\* guest flag is absent, no record subscription is left and, after the logout
\* of a user, the identity provider has no session.
C11_LogoutEndsUnauthenticated ==
  (hist.logout # "none" /\ Settled /\ ops = <<>>)
  => /\ user = NoUser
     /\ ~isGuest
     /\ localStorage[GuestKey] = NoItem
     /\ subs = {}
     /\ hist.logout = "auth" => authUser = NoUser

\* signInAsGuest was the last session operation and the page was reloaded
\* after it.
RestartedAsGuest == hist.restarted /\ hist.guestLast

\* C12: after a reload that follows signInAsGuest, the first step of the new
\* process makes the session a guest's (isGuest true, user null, loading
\* false) with no listener registered at the identity provider; the login
\* screen is never shown, and the session stays a guest's until the next
\* session operation.
C12_GuestRestored ==
  [][RestartedAsGuest
     => /\ ~LoginShown
        /\ user = NoUser
        /\ effect = "unmounted"
             => (effect' # "unmounted" /\ isGuest' /\ ~loading' /\ user' = NoUser
                 /\ authSubs' = <<>>)
        /\ effect # "unmounted" => (isGuest /\ ~loading /\ authSubs = <<>>)]_vars

C12_Witness ==
  /\ RestartedAsGuest
  /\ isGuest
  /\ ~loading
  /\ app.mounted

\* C13: when a credential operation ends by throwing, user, isGuest, the
\* guest flag and the identity provider's session are what they were when
\* the operation was called.
C13_NoPartialTransition ==
  [][\A j \in DOMAIN ops :
       (ops[j].kind \in OpClasses /\ ops[j].pc = "failed" /\ ops' = Without(ops, j))
       => SessionState' = ops[j].before]_vars

\* C14: the login screen displayed after a credential operation has thrown
\* shows a non-empty error message.
C14_FailureShown ==
  (hist.signInFailed /\ login.mounted) => login.error # ""

\* C18: once the render that follows a change of user or isGuest has run its
\* effects, every active record subscription is the one of the mounted
\* AuthenticatedApp of the current user: the subscriptions of the sessions
\* closed before are unsubscribed.
C18_SubscriptionReleased ==
  ~RenderPending
  => \A l \in subs : app.mounted /\ l.live /\ user # NoUser /\ l.uid = user

\* C15: while mutations of a user's loaded record follow one another with the
\* save timer not yet fired and the user still signed in, one timer is set, holding the record after the
\* last mutation; a mutation calls saveUserData not at all, and the timer,
\* when it fires, calls it once with that record and leaves no timer.
InBurst == hist.burst > 0 /\ user # NoUser

C16_LastMutationPersisted ==
  <>[][hist'.unsaved = hist.unsaved \/ hist'.unsaved = Null]_vars
    => <>[](hist.unsaved = Null)

\* C17: after a mutation by a guest, the local store entry holds the mutated
\* record, and a guest session loaded later shows it.
C17_GuestWritesLocal ==
  hist.guestRecord # Null
  => /\ localStorage[DataKey] = JSONstringify(hist.guestRecord)
     /\ (isGuest /\ app.mounted /\ ~app.isLoadingData)
          => app.data = hist.guestRecord

\* C19: the confirmed balance is the income less the expenses less the paid
\* bills, the projected balance adds the weekly estimate, the net worth adds
\* the paid deposits, and none of the three changes when a sequence of the
\* record is put in another order.
C19_AggregateIdentities ==
  [][/\ ConfirmedBalance(app.data)
          = Sub(Sub(Reduce(app.data.incomeHistory, Double(0, 0)),
                    Reduce(app.data.expenses, Double(0, 0))),
                Reduce(SelectSeq(app.data.bills, LAMBDA b : b.isPaid), Double(0, 0)))
     /\ ProjectedBalance(app.data)
          = Add(ConfirmedBalance(app.data), app.data.weeklyEstimate)
     /\ TotalNetWorth(app.data)
          = Add(ConfirmedBalance(app.data),
                Reduce(SelectSeq(app.data.bills, LAMBDA b : b.isPaid /\ IsDeposit(b)),
                       Double(0, 0)))
     /\ (\E f \in Sequences : \E k \in DOMAIN app.data[f] : Permute(f, k))
          => /\ ConfirmedBalance(app'.data) = ConfirmedBalance(app.data)
             /\ ProjectedBalance(app'.data) = ProjectedBalance(app.data)
             /\ TotalNetWorth(app'.data) = TotalNetWorth(app.data)]_vars

\* C20: marking an item of the wishlist purchased leaves the other items in
\* their order, removes those with its id, appends to the expenses one expense
\* with the item's price, the category Shopping and a description holding the
\* item's name, and leaves the estimate, the income and the bills alone.
C20_PurchaseTransition ==
  [][\A k \in DOMAIN app.data.wishlist : \A g \in GeneratedIds : \A t \in Dates :
       Purchase(app.data.wishlist[k], g, t)
       => LET W == app.data.wishlist[k]
              new == app'.data
              last == new.expenses[Len(new.expenses)]
          IN /\ \A i \in DOMAIN new.wishlist : new.wishlist[i].id # W.id
             /\ new.wishlist = SelectSeq(app.data.wishlist, LAMBDA i : i.id # W.id)
             /\ Len(new.expenses) = Len(app.data.expenses) + 1
             /\ SubSeq(new.expenses, 1, Len(app.data.expenses)) = app.data.expenses
             /\ last.amount = W.price
             /\ last.category = "Shopping"
             /\ \E i \in DOMAIN last.description : last.description[i] = W.name
             /\ new.weeklyEstimate = app.data.weeklyEstimate
             /\ new.incomeHistory = app.data.incomeHistory
             /\ new.bills = app.data.bills]_vars

\* An item was purchased and a later item with another id was kept.
C20_Witness ==
  /\ app.mounted
  /\ app.data.expenses # <<>>
  /\ app.data.expenses[Len(app.data.expenses)].category = "Shopping"
  /\ app.data.expenses[Len(app.data.expenses)].amount = Double(0, 121)
  /\ app.data.wishlist = <<WishlistEntry(2)>>
  /\ hist.guestRecord = app.data


(* ------------------------ the claims, C21 to C30 ------------------------ *)
\* C21: a wishlist item is purchased at most once: a purchase made with an
\* item that was purchased and has left the wishlist adds no expense.
C21_PurchasedOnce ==
  [][\A item \in Buttons : \A g \in GeneratedIds : \A d \in Dates :
       (/\ item.id \in hist.purchased
        /\ item.id \notin Ids(app.data.wishlist)
        /\ Purchase(item, g, d))
       => app'.data.expenses = app.data.expenses]_vars

\* C22: in every record the user's actions reach from the empty record the
\* ids of the entries of a sequence are pairwise distinct.
C22_DistinctIds ==
  \A f \in Sequences : \A a, b \in DOMAIN app.data[f] :
     a # b => app.data[f][a].id # app.data[f][b].id

\* C23: in every record the user's actions reach from the empty record no
\* amount is negative: the weekly estimate, the amounts of the income
\* entries, the bills and the expenses, and the prices of the wishlist.
C23_NonNegativeAmounts ==
  LET d == app.data
  IN /\ ~Negative(d.weeklyEstimate)
     /\ \A k \in DOMAIN d.incomeHistory : ~Negative(d.incomeHistory[k].amount)
     /\ \A k \in DOMAIN d.bills : ~Negative(d.bills[k].amount)
     /\ \A k \in DOMAIN d.expenses : ~Negative(d.expenses[k].amount)
     /\ \A k \in DOMAIN d.wishlist : ~Negative(d.wishlist[k].price)

\* C30: in every record the user's actions reach from the empty record no
\* bill is a deposit, the held deposits total 0 and the net worth is the
\* confirmed balance.
C30_NoDeposits ==
  LET d == app.data
  IN /\ \A k \in DOMAIN d.bills : ~IsDeposit(d.bills[k])
     /\ TotalHeldDeposits(d) = Double(0, 0)
     /\ TotalNetWorth(d) = ConfirmedBalance(d)
\* A record with an income and a paid bill of a positive amount.
C30_Witness ==
  /\ app.data.incomeHistory # <<>>
  /\ \E k \in DOMAIN app.data.bills :
        app.data.bills[k].isPaid /\ Positive(app.data.bills[k].amount)

\* C24: once the subscription has reported an error or a remote operation
\* has failed, and the user has changed nothing, the remote document is the
\* record it held and no write of the empty default record is issued.
C24_FailureKeepsRemote ==
  hist.failed =>
    /\ \A uid \in Users : remote[uid] = SavedRecord
    /\ \A k \in DOMAIN writes : writes[k].data # DefaultData

\* C25: in a session of one user whose writes succeed, a snapshot does not
\* replace a record the user has mutated and no save has yet carried; and
\* once nothing is in progress the record shown is the remote document and
\* no mutation is left unsaved.
C25_Convergence ==
  /\ [][\A l \in subs :
          (/\ hist.unsaved = [uid |-> user, data |-> app.data]
           /\ SnapshotDelivered(l))
          => app'.data = app.data]_vars
  /\ [](( /\ Quiescent
          /\ app.mounted
          /\ user # NoUser
          /\ ~isGuest
          /\ ~app.isLoadingData
          /\ \E l \in subs : l.live /\ l.uid = user)
        => /\ app.data = remote[user]
           /\ hist.unsaved = Null)

\* C26: saveUserData is called by the save timer only while AuthenticatedApp
\* is mounted with isLoadingData false, and a timer is set only then: the
\* record of lines 50-56 is not written before the first snapshot.
C26_NoSaveWhileLoading ==
  /\ [](timer.set => (app.mounted /\ ~app.isLoadingData))
  /\ [][Saves' > Saves => (app.mounted /\ ~app.isLoadingData)]_vars
\* The timer's save is on its way to the store and AuthenticatedApp, mounted
\* again since, is loading.
C26_Witness ==
  /\ Saves > 0
  /\ app.mounted
  /\ app.isLoadingData
  /\ user # NoUser

\* A step that calls listenForUserData, migrateLocalDataToFirestore,
\* getUserData or saveUserData.
Listens ==
  \E l \in subs' : l.registered /\ l.live /\ l.dirty /\ l \notin subs
Reads ==
  \E i \in DOMAIN calls' :
     calls'[i].pc = "getDoc" /\ (i \notin DOMAIN calls \/ calls[i].pc # "getDoc")
Writes ==
  /\ writes' # <<>>
  /\ writes' # writes
  /\ writes = <<>> \/ writes' # Tail(writes)
TouchesRemote == Listens \/ Started > 0 \/ Reads \/ Writes

\* C27: no step that leaves the session a guest's calls listenForUserData,
\* getUserData, saveUserData or migrateLocalDataToFirestore.
C27_GuestNeverTouchesRemote == [][isGuest' => ~TouchesRemote]_vars

\* C28: every active subscription is in the registry, and cleanup() leaves
\* no active subscription.
C28_RegistryTracksAll ==
  /\ [](\A l \in subs : l.registered)
  /\ [][Logout => subs' = {}]_vars

\* C29: once the initial effect has run, whenever the session is settled and
\* no session operation is in progress, isGuest is true exactly when the key
\* 'moniclear_guest_user' holds 'true'.
C29_FlagAgreesWithState ==
  (Settled /\ ops = <<>> /\ effect # "unmounted")
  => (isGuest <=> localStorage[GuestKey] = <<"true">>)
\* A guest session entered after a sign-in that failed.
C29_Witness ==
  /\ Settled
  /\ ops = <<>>
  /\ isGuest
  /\ localStorage[GuestKey] = <<"true">>
  /\ app.mounted
  /\ hist.signInFailed

====
